---- MODULE Spec2Model ----
(***************************************************************************)
(* A model of the chat page of src/src/app/page.tsx (component Home).      *)
(*                                                                         *)
(* The React state (chats, activeChat, loading), the localStorage entry    *)
(* "chats" and the completion streams in flight are the variables.  Every  *)
(* event handler, effect and stream callback is one action.  A handler     *)
(* reads the state of the render it was created in: a user event reads the *)
(* current state, while the continuation of sendMessage after `await       *)
(* fetch` and the 'content' callbacks keep the closure of the render in    *)
(* which the message was submitted (its `chats`, `activeChat` and          *)
(* `updatedMessages`).  The text of the input box (userInput, line 41) is  *)
(* the parameter of sendMessage: the handler reads it at submit and        *)
(* nothing else depends on it.                                             *)
(*                                                                         *)
(* Strings are sequences of character runs, so that slice, trim and += are *)
(* computed.  A timestamp is a record [kind, t]: kind "Date" is a          *)
(* Date object, kind "ISO" the string JSON.stringify produces for it.      *)
(***************************************************************************)
EXTENDS Integers, Sequences, FiniteSets, TLC

VARIABLES
    phase,       \* "boot": first render done, mount effects not yet run;
                 \* "ready"; "crashed": a mount effect threw
    chats,       \* useState<Chat[]>                       (line 40)
    activeChat,  \* useState<Chat | null>: <<>> or <<chat>> (line 39)
    loading,     \* useState<boolean>                      (line 38)
    storage,     \* localStorage entry "chats": [present, chats]
    streams,     \* one record per sendMessage call that reached the try block
    clock,       \* the last reading of Date.now() / new Date()
    gateway      \* the POST route (lines 309-337): the request it is serving

vars == <<phase, chats, activeChat, loading, storage, streams, clock, gateway>>

----------------------------------------------------------------------------
(* Bounds of the model *)

MaxChats == 2      \* conversations in the list
MaxSends == 2      \* sendMessage calls that reach the request
MaxDeltas == 2     \* deltas delivered by one stream
MaxClock == 2      \* clock readings

(* Program constants *)

TitleLen == 30     \* messages[0]?.content.slice(0, 30)

----------------------------------------------------------------------------
(* Strings: a string is the sequence of its runs <<character, count>>,    *)
(* no two neighbouring runs of the same character ("aab" is                *)
(* <<<<"a", 2>>, <<"b", 1>>>>, "" is <<>>).                                *)

Char(c) == <<<<c, 1>>>>

\* a + b
Cat(a, b) ==
    IF a = <<>> THEN b
    ELSE IF b = <<>> THEN a
    ELSE IF a[Len(a)][1] = b[1][1]
         THEN SubSeq(a, 1, Len(a) - 1) \o <<<<b[1][1], a[Len(a)][2] + b[1][2]>>>> \o Tail(b)
         ELSE a \o b

\* s.slice(0, n)
RECURSIVE Take(_, _)
Take(s, n) ==
    IF s = <<>> \/ n <= 0 THEN <<>>
    ELSE IF s[1][2] >= n THEN <<<<s[1][1], n>>>>
    ELSE <<s[1]>> \o Take(Tail(s), n - s[1][2])

\* 30 times "x", then "y": one character longer than a title
LongText == <<<<"x", TitleLen>>, <<"y", 1>>>>

\* What the input box may hold at submit.
Inputs == { <<>>, Char(" "), LongText }

\* What one 'content' event may carry: "a", "bc"
Deltas == { Char("a"), Cat(Char("b"), Char("c")) }

\* Mutant of IsBlank: the input is tested without trim().
IsBlank_EmptyOnly(s) == s = <<>>

\* !userInput.trim(): trim() leaves the empty string
IsBlank(s) == \A i \in DOMAIN s : s[i][1] = " "

Digits == <<"0", "1", "2", "3", "4", "5", "6", "7", "8", "9">>

\* `New Chat ${n}` for n < 10
DefaultTitle(n) ==
    <<<<"N", 1>>, <<"e", 1>>, <<"w", 1>>, <<" ", 1>>, <<"C", 1>>, <<"h", 1>>,
      <<"a", 1>>, <<"t", 1>>, <<" ", 1>>, <<Digits[n + 1], 1>>>>

----------------------------------------------------------------------------
(* Timestamps and JSON *)

DateOf(t) == [kind |-> "Date", t |-> t]

\* JSON.stringify of a value that may be a Date: Date.prototype.toJSON gives
\* the ISO string; a string stays the string it is.
StampToJSON(ts) == [kind |-> "ISO", t |-> ts.t]

\* new Date(x) for x a Date or an ISO string
NewDate(ts) == [kind |-> "Date", t |-> ts.t]

MessageToJSON(m) == [m EXCEPT !.timestamp = StampToJSON(m.timestamp)]

ChatToJSON(c) ==
    [c EXCEPT !.createdAt = StampToJSON(c.createdAt),
              !.messages = [i \in DOMAIN c.messages |-> MessageToJSON(c.messages[i])]]

\* JSON.stringify(chats), as the structure JSON.parse gives back
Serialize(cs) == [i \in DOMAIN cs |-> ChatToJSON(cs[i])]

\* parsedChats.map(chat => ({...chat, createdAt: new Date(chat.createdAt)}))
ConvertChats(parsed) ==
    [i \in DOMAIN parsed |-> [parsed[i] EXCEPT !.createdAt = NewDate(parsed[i].createdAt)]]

\* The storage entry: absent, the text JSON.stringify wrote (parses to
\* chats), or a text that JSON.parse rejects.
NoItem == [present |-> FALSE, parses |-> TRUE, chats |-> <<>>]
Item(cs) == [present |-> TRUE, parses |-> TRUE, chats |-> Serialize(cs)]
Corrupt == [present |-> TRUE, parses |-> FALSE, chats |-> <<>>]

----------------------------------------------------------------------------
(* updateChat *)

\* messages[0]?.content.slice(0, 30) || chat.title
NewTitle(messages, oldTitle) ==
    IF Len(messages) > 0 /\ Take(messages[1].content, TitleLen) # <<>>
    THEN Take(messages[1].content, TitleLen)
    ELSE oldTitle

\* Mutant of UpdatedChats: every conversation of the list takes the messages.
UpdatedChats_All(cs, chatId, messages) ==
    [i \in DOMAIN cs |->
        [cs[i] EXCEPT !.title = NewTitle(messages, cs[i].title),
                      !.messages = messages]]

\* chats.map(chat => chat.id === chatId ? {...chat, title, messages} : chat)
UpdatedChats(cs, chatId, messages) ==
    [i \in DOMAIN cs |->
        IF cs[i].id = chatId
        THEN [cs[i] EXCEPT !.title = NewTitle(messages, cs[i].title),
                           !.messages = messages]
        ELSE cs[i]]

\* Mutant of UpdatedActiveChat: the active conversation is not refreshed.
UpdatedActiveChat_NotRefreshed(updated, chatId, current) == current

\* updatedChats.find(chat => chat.id === chatId); setActiveChat when found
UpdatedActiveChat(updated, chatId, current) ==
    LET hits == {i \in DOMAIN updated : updated[i].id = chatId}
    IN IF hits = {} THEN current
       ELSE <<updated[CHOOSE i \in hits : \A j \in hits : i <= j]>>

----------------------------------------------------------------------------
(* Initial state: the first render, before the mount effects.  The storage *)
(* entry is absent (first visit), holds what an earlier page load wrote, or *)
(* holds a text that is not JSON.  The gateway serves no request.          *)

Idle == [pc |-> "idle", prompt |-> <<>>, model |-> "", status |-> 0,
         body |-> "none", chunks |-> <<>>, failure |-> "none"]

StoredBefore ==
    <<[id |-> 0, title |-> DefaultTitle(1), messages |-> <<>>, createdAt |-> DateOf(0)]>>

Init ==
    /\ phase = "boot"
    /\ chats = <<>>
    /\ activeChat = <<>>
    /\ loading = FALSE
    /\ storage \in {NoItem, Item(<<>>), Item(StoredBefore), Corrupt}
    /\ streams = <<>>
    /\ clock = 1
    /\ gateway = Idle

\* Mutant of LoadedChats: the entry is read after the second effect has
\* written the empty list of the first render over it.
LoadedChats_AfterPersist(item) == ConvertChats(Item(<<>>).chats)

\* The first mount effect (lines 47-61): what it hands to setChats
LoadedChats(item) == IF item.present THEN ConvertChats(item.chats) ELSE <<>>

\* Mutant of LoadedActive: the first chat is selected instead of the last.
LoadedActive_First(loaded) == IF Len(loaded) > 0 THEN <<loaded[1]>> ELSE <<>>

\* ... and to setActiveChat: the last chat, when there is one
LoadedActive(loaded) == IF Len(loaded) > 0 THEN <<loaded[Len(loaded)]>> ELSE <<>>

\* The mount effects and the render they cause.  The first effect reads the
\* entry before the second one (lines 63-65) overwrites it with the empty
\* list of the first render; after the re-render the second effect writes
\* the loaded list.
Startup ==
    /\ phase = "boot"
    /\ storage.parses
    /\ phase' = "ready"
    /\ chats' = LoadedChats(storage)
    /\ activeChat' = LoadedActive(chats')
    /\ storage' = Item(chats')
    /\ UNCHANGED <<gateway, loading, streams, clock>>

\* The first mount effect with an entry that is not JSON: JSON.parse
\* (line 50) throws inside the effect, nothing catches it and React takes the
\* component tree down.  Whether the second effect of that commit still
\* writes the empty list is React's matter: both outcomes are kept.
StartupCrash ==
    /\ phase = "boot"
    /\ ~storage.parses
    /\ phase' = "crashed"
    /\ storage' \in {storage, Item(chats)}
    /\ UNCHANGED <<gateway, chats, activeChat, loading, streams, clock>>

\* The crashed page is loaded again: first render, mount effects to come.
ReloadAfterCrash ==
    /\ phase = "crashed"
    /\ phase' = "boot"
    /\ UNCHANGED <<gateway, chats, activeChat, loading, storage, streams, clock>>

\* A send of a page that was unloaded: its closure and its stream are gone.
Gone == [chatId |-> -1, snap |-> <<>>, updatedMessages |-> <<>>, rickResponse |-> <<>>,
         sent |-> <<>>, phase |-> "gone", notified |-> 0]

\* The page is loaded again: the React state and the streams of the old page
\* are gone, the storage entry stays, and the mount effects run.
Reload ==
    /\ phase = "ready"
    /\ chats' = LoadedChats(storage)
    /\ activeChat' = LoadedActive(chats')
    /\ storage' = Item(chats')
    /\ loading' = FALSE
    /\ streams' = [s \in DOMAIN streams |-> Gone]
    /\ UNCHANGED <<gateway, phase, clock>>

\* What Date.now() or new Date() may read: time has not advanced since the
\* last reading, or it has.
Now == {t \in {clock, clock + 1} : t <= MaxClock}

----------------------------------------------------------------------------
(* createNewChat (lines 68-77) *)

NewChat(now) == [id |-> now, title |-> DefaultTitle(Len(chats) + 1),
                 messages |-> <<>>, createdAt |-> DateOf(now)]

\* Mutant of ChatsWithNew: the new chat is put in front.
ChatsWithNew_InFront(prev, newChat) == <<newChat>> \o prev

\* setChats(prev => [...prev, newChat])
ChatsWithNew(prev, newChat) == Append(prev, newChat)

CreateNewChatEffect(now) ==
    /\ chats' = ChatsWithNew(chats, NewChat(now))
    /\ activeChat' = <<NewChat(now)>>
    /\ storage' = Item(chats')
    /\ clock' = now

CreateNewChat(now) ==
    /\ phase = "ready"
    /\ Len(chats) < MaxChats
    /\ CreateNewChatEffect(now)
    /\ UNCHANGED <<gateway, phase, loading, streams>>

\* onClick of a sidebar entry (line 193): setActiveChat(chat)
SelectChat(i) ==
    /\ phase = "ready"
    /\ i \in DOMAIN chats
    /\ activeChat' = <<chats[i]>>
    /\ UNCHANGED <<gateway, phase, chats, loading, storage, streams, clock>>

----------------------------------------------------------------------------
(* sendMessage (lines 112-169) *)

\* handleError (lines 32-35): one toast.error per call, counted on the send
handleError(st) == [st EXCEPT !.notified = @ + 1]

\* { role: "user", content: userInput, timestamp: new Date() }
UserMessage(text, now) == [role |-> "user", content |-> text, timestamp |-> DateOf(now)]

\* [...activeChat.messages, newMessage]
UpdatedMessages(messages, newMessage) == Append(messages, newMessage)

\* Mutant of Accumulate: the delta replaces what was received so far.
Accumulate_Replace(rickResponse, delta) == delta

\* rickResponse += delta
Accumulate(rickResponse, delta) == Cat(rickResponse, delta)

\* [...updatedMessages, { role: "assistant", content: rickResponse, timestamp: new Date() }]
MessagesWithResponse(updatedMessages, rickResponse, now) ==
    Append(updatedMessages,
           [role |-> "assistant", content |-> rickResponse, timestamp |-> DateOf(now)])

\* line 114: if (!userInput.trim()) return;
SendBlank(userInput) ==
    /\ IsBlank(userInput)
    /\ UNCHANGED <<gateway, phase, chats, activeChat, loading, storage, streams, clock>>

\* lines 117-120: if (!activeChat) { createNewChat(); return; }
SendNoActive(userInput, now) ==
    /\ ~IsBlank(userInput)
    /\ activeChat = <<>>
    /\ Len(chats) < MaxChats
    /\ CreateNewChatEffect(now)
    /\ UNCHANGED <<gateway, phase, loading, streams>>

\* lines 122-143: the user message is stored and the request is issued.  The
\* send keeps the closure of this render: chats (read by updateChat),
\* activeChat.id and updatedMessages.
SendRequest(userInput, now) ==
    /\ ~IsBlank(userInput)
    /\ activeChat # <<>>
    /\ Len(streams) < MaxSends
    /\ LET chatId == activeChat[1].id
           updatedMessages == UpdatedMessages(activeChat[1].messages, UserMessage(userInput, now))
           updatedChats == UpdatedChats(chats, chatId, updatedMessages)
       IN /\ loading' = TRUE
          /\ chats' = updatedChats
          /\ activeChat' = UpdatedActiveChat(updatedChats, chatId, activeChat)
          /\ storage' = Item(chats')
          /\ streams' = Append(streams,
                [chatId |-> chatId, snap |-> chats, updatedMessages |-> updatedMessages,
                 rickResponse |-> <<>>, sent |-> <<>>, phase |-> "fetch", notified |-> 0])
          /\ clock' = now
    /\ UNCHANGED <<gateway, phase>>

\* onSubmit of the form (line 249); the submit button is disabled while
\* loading (line 262).  The form is rendered only with an active chat
\* (line 219); the handler is modelled for every state, as its own test of
\* activeChat (lines 117-120) provides for the other case.
SendMessage(userInput, now) ==
    /\ phase = "ready"
    /\ loading = FALSE
    /\ (SendBlank(userInput) \/ SendNoActive(userInput, now) \/ SendRequest(userInput, now))

\* The fetch of line 136 settles.  With response.ok the runner is created and
\* the 'content' callback registered; otherwise line 146 throws and the catch
\* block runs handleError.  The finally block runs in both cases.
FetchResponse(s, ok) ==
    /\ phase = "ready"
    /\ s \in DOMAIN streams
    /\ streams[s].phase = "fetch"
    /\ streams' = [streams EXCEPT ![s] =
            IF ok THEN [@ EXCEPT !.phase = "streaming"]
            ELSE [handleError(@) EXCEPT !.phase = "failed"]]
    /\ loading' = FALSE
    /\ UNCHANGED <<gateway, phase, chats, activeChat, storage, clock>>

\* runner.on("content", ...) (lines 151-163): updateChat here is the one of
\* the render the message was submitted in, so it maps over that render's
\* chats (snap).
StreamContent(s, delta, now) ==
    /\ phase = "ready"
    /\ s \in DOMAIN streams
    /\ streams[s].phase = "streaming"
    /\ Len(streams[s].sent) < MaxDeltas
    /\ LET st == streams[s]
           rickResponse == Accumulate(st.rickResponse, delta)
           updatedChats == UpdatedChats(st.snap, st.chatId,
                               MessagesWithResponse(st.updatedMessages, rickResponse, now))
       IN /\ streams' = [streams EXCEPT ![s] =
                [@ EXCEPT !.rickResponse = rickResponse, !.sent = Append(@, delta)]]
          /\ chats' = updatedChats
          /\ activeChat' = UpdatedActiveChat(updatedChats, st.chatId, activeChat)
          /\ storage' = Item(chats')
          /\ clock' = now
    /\ UNCHANGED <<gateway, phase, loading>>

\* The gateway closes the stream.  No handler is registered for it.
StreamEnd(s) ==
    /\ phase = "ready"
    /\ s \in DOMAIN streams
    /\ streams[s].phase = "streaming"
    /\ streams' = [streams EXCEPT ![s] = [@ EXCEPT !.phase = "closed"]]
    /\ UNCHANGED <<gateway, phase, chats, activeChat, loading, storage, clock>>

\* Mutant of StreamError: the failure takes the partial reply back out of
\* the conversation.
StreamError_RollsBack(s) ==
    /\ phase = "ready"
    /\ s \in DOMAIN streams
    /\ streams[s].phase = "streaming"
    /\ streams' = [streams EXCEPT ![s] = [@ EXCEPT !.phase = "errored"]]
    /\ chats' = UpdatedChats(streams[s].snap, streams[s].chatId, streams[s].updatedMessages)
    /\ activeChat' = UpdatedActiveChat(chats', streams[s].chatId, activeChat)
    /\ storage' = Item(chats')
    /\ UNCHANGED <<gateway, phase, loading, clock>>

\* The stream raises an error after it has started.  The try block of
\* sendMessage was left when the callback was registered, and no 'error'
\* handler is registered.
StreamError(s) ==
    /\ phase = "ready"
    /\ s \in DOMAIN streams
    /\ streams[s].phase = "streaming"
    /\ streams' = [streams EXCEPT ![s] = [@ EXCEPT !.phase = "errored"]]
    /\ UNCHANGED <<gateway, phase, chats, activeChat, loading, storage, clock>>

----------------------------------------------------------------------------

Next ==
    \/ Startup
    \/ StartupCrash
    \/ ReloadAfterCrash
    \/ Reload
    \/ \E now \in Now : CreateNewChat(now)
    \/ \E i \in 1..MaxChats : SelectChat(i)
    \/ \E userInput \in Inputs, now \in Now : SendMessage(userInput, now)
    \/ \E s \in 1..MaxSends, ok \in BOOLEAN : FetchResponse(s, ok)
    \/ \E s \in 1..MaxSends, delta \in Deltas, now \in Now : StreamContent(s, delta, now)
    \/ \E s \in 1..MaxSends : StreamEnd(s)
    \/ \E s \in 1..MaxSends : StreamError(s)

Spec == Init /\ [][Next]_vars

-----------------------------------------------------------------------------
(* The gateway: the POST route of lines 309-337.  It keeps no state of its *)
(* own between requests; `gateway' holds the request being served and what *)
(* has been answered so far.  One request is followed at a time.           *)

\* What a request body can be: a text req.json() rejects, or an object with
\* any prompt and any model name.
BadBody == [parses |-> FALSE, prompt |-> <<>>, model |-> ""]
Models == {"mistralai/Mixtral-8x7B-Instruct-v0.1", "other"}
Requests ==
    {BadBody} \cup
    {[parses |-> TRUE, prompt |-> p, model |-> m] : p \in Inputs, m \in Models}

\* The catch block, lines 328-336: status 500 with the JSON body {error}.
ErrorResponse(req, failure) ==
    [pc |-> "responded", prompt |-> req.prompt, model |-> req.model,
     status |-> 500, body |-> "json-error", chunks |-> <<>>,
     failure |-> failure]

\* Line 327: new Response(runner.toReadableStream()), built without a status,
\* hence 200, and returned before the provider has produced anything.
StreamResponse(req) ==
    [pc |-> "streaming", prompt |-> req.prompt, model |-> req.model,
     status |-> 200, body |-> "stream", chunks |-> <<>>, failure |-> "none"]

\* The handler up to its return.  req.json() may reject (line 311) and the
\* call of together.chat.completions.stream may throw while it is made
\* (line 320): both are inside the try block.
POST(req, startThrows) ==
    /\ gateway.pc \in {"idle", "responded", "closed", "errored"}
    /\ gateway' = IF ~req.parses THEN ErrorResponse(req, "body")
                  ELSE IF startThrows THEN ErrorResponse(req, "start")
                  ELSE StreamResponse(req)
    /\ UNCHANGED <<phase, chats, activeChat, loading, storage, streams, clock>>

\* After the return the provider's completion arrives piece by piece and is
\* passed on in the body of the response already sent.
ProviderChunk(delta) ==
    /\ gateway.pc = "streaming"
    /\ Len(gateway.chunks) < MaxDeltas
    /\ gateway' = [gateway EXCEPT !.chunks = Append(@, delta)]
    /\ UNCHANGED <<phase, chats, activeChat, loading, storage, streams, clock>>

ProviderEnd ==
    /\ gateway.pc = "streaming"
    /\ gateway' = [gateway EXCEPT !.pc = "closed"]
    /\ UNCHANGED <<phase, chats, activeChat, loading, storage, streams, clock>>

\* The provider fails while the stream is being produced.  The handler has
\* returned, its try block is over: the readable stream errors, the status
\* line of the response is the one already sent.
ProviderError ==
    /\ gateway.pc = "streaming"
    /\ gateway' = [gateway EXCEPT !.pc = "errored", !.failure = "stream"]
    /\ UNCHANGED <<phase, chats, activeChat, loading, storage, streams, clock>>

NextGateway ==
    \/ \E req \in Requests, startThrows \in BOOLEAN : POST(req, startThrows)
    \/ \E delta \in Deltas : ProviderChunk(delta)
    \/ ProviderEnd
    \/ ProviderError

SpecGateway == Init /\ [][NextGateway]_vars

----------------------------------------------------------------------------
(* Auxiliary notions for the properties *)

Last(q) == q[Len(q)]

RECURSIVE StrLen(_)
StrLen(s) == IF s = <<>> THEN 0 ELSE s[1][2] + StrLen(Tail(s))

RECURSIVE Concat(_)
Concat(ds) == IF ds = <<>> THEN <<>> ELSE Cat(Head(ds), Concat(Tail(ds)))

Ids(cs) == {cs[i].id : i \in DOMAIN cs}

\* No two conversations of the list share an id
DistinctIds(cs) == \A i, j \in DOMAIN cs : cs[i].id = cs[j].id => i = j

\* The positions that hold the same conversation before and after a step
Kept == {i \in DOMAIN chats : i \in DOMAIN chats' /\ chats'[i].id = chats[i].id}

\* A message list without the representation of its timestamps
Shown(messages) ==
    [k \in DOMAIN messages |->
        [role |-> messages[k].role, content |-> messages[k].content]]

----------------------------------------------------------------------------
(* Properties *)

\* C1: once a stream that delivered deltas d1..dn (n >= 1) has closed, and no
\* other send went into its conversation, the conversation's last message is
\* an assistant message whose content is d1 \o ... \o dn.  (Stated for the
\* lists whose ids are distinct, so that no violation rests on two
\* conversations sharing an id.)
C1_FinalContentIsConcatenation ==
    \A s \in DOMAIN streams :
        (/\ streams[s].phase = "closed"
         /\ Len(streams[s].sent) >= 1
         /\ DistinctIds(chats)
         /\ \A r \in DOMAIN streams : r # s => streams[r].chatId # streams[s].chatId)
        => \E i \in DOMAIN chats :
              /\ chats[i].id = streams[s].chatId
              /\ chats[i].messages # <<>>
              /\ Last(chats[i].messages).role = "assistant"
              /\ Last(chats[i].messages).content = Concat(streams[s].sent)

\* C2: a sendMessage with non-blank text T and no active conversation creates a
\* conversation that holds T as its one user message, titled by the first 30
\* characters of T, and issues the completion request.
C2_FirstSendCreatesAndSends ==
    [][\A userInput \in Inputs, now \in Now :
        (SendMessage(userInput, now) /\ ~IsBlank(userInput) /\ activeChat = <<>>)
        => /\ Len(chats') = Len(chats) + 1
           /\ Shown(Last(chats').messages) = <<[role |-> "user", content |-> userInput]>>
           /\ Last(chats').title = Take(userInput, TitleLen)
           /\ Len(streams') = Len(streams) + 1
           /\ Last(streams').phase = "fetch"]_vars

\* C3: no step removes a conversation: every id of the list before the step
\* is in the list, and in the storage entry, after it.
C3_NoConversationRemoved ==
    [][/\ Ids(chats) \subseteq Ids(chats')
       /\ Ids(chats) \subseteq Ids(storage'.chats)]_vars

\* C4: an update of conversation X (by a send or by a 'content' callback)
\* leaves the messages of every other conversation as they were before the
\* update.  (Stated for the conversations that stay in the list, and for
\* lists whose ids are distinct.)
C4_UpdateLeavesOthersAlone ==
    [][\A s \in 1..MaxSends :
        (/\ DistinctIds(chats)
         /\ \/ \E delta \in Deltas, now \in Now : StreamContent(s, delta, now)
            \/ /\ Len(streams') = s
               /\ \E userInput \in Inputs, now \in Now : SendRequest(userInput, now))
        => \A i \in Kept :
              chats[i].id # streams'[s].chatId
              => chats'[i].messages = chats[i].messages]_vars

\* C5: in every state, an active conversation has an entry of the list with
\* its id, and that entry has the active conversation's title and messages.
C5_ActiveChatInList ==
    activeChat # <<>>
    => \E i \in DOMAIN chats :
          /\ chats[i].id = activeChat[1].id
          /\ chats[i].title = activeChat[1].title
          /\ chats[i].messages = activeChat[1].messages

\* C5 witness: two conversations, the active one holding an assistant reply
\* that a stream delivered while the other stream was in flight
C5_Witness ==
    /\ Len(chats) = 2
    /\ activeChat # <<>>
    /\ activeChat[1].messages # <<>>
    /\ Last(activeChat[1].messages).role = "assistant"
    /\ \E s, r \in DOMAIN streams :
          /\ s # r
          /\ streams[s].chatId = activeChat[1].id
          /\ streams[s].sent # <<>>
          /\ streams[r].phase = "streaming"

\* The ways one step may change a message list: not at all, by one message
\* appended, or by a longer content of the trailing assistant message
\* (timestamps aside).
GrowsOnly(old, new) ==
    \/ new = old
    \/ /\ Len(new) = Len(old) + 1
       /\ SubSeq(new, 1, Len(old)) = old
    \/ /\ Len(new) = Len(old)
       /\ Len(old) > 0
       /\ SubSeq(new, 1, Len(old) - 1) = SubSeq(old, 1, Len(old) - 1)
       /\ Last(old).role = "assistant"
       /\ Last(new).role = "assistant"
       /\ Take(Last(new).content, StrLen(Last(old).content)) = Last(old).content

\* C6: within a conversation every step appends a message or extends the
\* trailing assistant message; no message is removed and no assistant content
\* is cut back.  (Stated for the conversations that stay in the list, and for
\* lists whose ids are distinct.)
C6_MessagesOnlyGrow ==
    [][(DistinctIds(chats) /\ DistinctIds(chats'))
       => \A i \in Kept : GrowsOnly(Shown(chats[i].messages), Shown(chats'[i].messages))]_vars

\* C7: createNewChat is enabled whenever the page is up, and its step appends
\* the new conversation, with no messages, after the conversations that were
\* there, and makes it the active one.
C7_CreateAppendsAndActivates ==
    [][/\ (phase = "ready" /\ Len(chats) < MaxChats)
          => ENABLED (\E now \in Now : CreateNewChat(now))
       /\ \A now \in Now :
             CreateNewChat(now)
             => /\ activeChat' # <<>>
                /\ activeChat'[1].messages = <<>>
                /\ chats' = chats \o activeChat']_vars

\* C7 witness: a conversation created after one that holds messages
C7_Witness ==
    /\ Len(chats) = 2
    /\ chats[1].messages # <<>>
    /\ chats[2].messages = <<>>
    /\ chats[2].id = clock
    /\ chats[2].id # chats[1].id
    /\ activeChat = <<chats[2]>>

\* C8: once a conversation has its first user message, and so its title, no
\* step changes the title.  (Stated for the conversations that stay in the
\* list, and for lists whose ids are distinct.)
C8_TitleSetOnce ==
    [][(DistinctIds(chats) /\ DistinctIds(chats'))
       => \A i \in Kept :
             chats[i].messages # <<>> => chats'[i].title = chats[i].title]_vars

\* A conversations list with every timestamp taken as an instant
Instants(cs) ==
    [i \in DOMAIN cs |->
        [id |-> cs[i].id, title |-> cs[i].title, createdAt |-> cs[i].createdAt.t,
         messages |-> [k \in DOMAIN cs[i].messages |->
             [role |-> cs[i].messages[k].role, content |-> cs[i].messages[k].content,
              timestamp |-> cs[i].messages[k].timestamp.t]]]]

\* C9 as stated: a page load gives back the session that was stored: the
\* same conversations and the same active conversation.
C9_ReloadRestoresSession ==
    [][Reload => /\ Instants(chats') = Instants(chats)
                 /\ Instants(activeChat') = Instants(activeChat)]_vars

\* C9 amended: a page load gives back the conversations that were stored, in
\* their order, with their ids, titles and messages (timestamps as instants),
\* and the active conversation is the last of the list, or none when the list
\* is empty.
C9_ReloadRestoresChats ==
    [][Reload => /\ Instants(chats') = Instants(chats)
                 /\ chats' = <<>> => activeChat' = <<>>
                 /\ chats' # <<>> => activeChat' = <<chats'[Len(chats')]>>]_vars

\* C9 witness: a page loaded from an entry of two conversations, the first
\* with a reply; its message timestamps are the strings of the entry
C9_Witness ==
    /\ Len(chats) = 2
    /\ Len(chats[1].messages) = 2
    /\ \A k \in DOMAIN chats[1].messages : chats[1].messages[k].timestamp.kind = "ISO"
    /\ chats[1].createdAt.kind = "Date"
    /\ activeChat = <<chats[2]>>
    /\ \E s \in DOMAIN streams : streams[s].phase = "gone"

\* C10: when the request of a send is answered with a non-success status, the
\* error notification is raised once, the conversation the message was sent
\* to ends with that user message, and the send has added no assistant message.
\* (Stated for lists whose ids are distinct.)
C10_FailedSendKeepsUserMessage ==
    [][\A s \in 1..MaxSends :
        (FetchResponse(s, FALSE) /\ DistinctIds(chats'))
        => /\ streams'[s].notified = 1
           /\ streams'[s].sent = <<>>
           /\ \E i \in DOMAIN chats' :
                 /\ chats'[i].id = streams[s].chatId
                 /\ chats'[i].messages # <<>>
                 /\ Last(chats'[i].messages) = Last(streams[s].updatedMessages)]_vars

\* C11: every send that failed, by a non-success answer to its request or by
\* an error of its stream after it had started, has raised the error
\* notification exactly once.
C11_FailedSendReportedOnce ==
    \A s \in DOMAIN streams :
        streams[s].phase \in {"failed", "errored"} => streams[s].notified = 1

\* C12: the step in which a stream fails leaves the conversations, the active
\* conversation and the stored list as they are, with the partial reply
\* d1 \o ... \o dk in place, and issues no request; a failed stream is never
\* started again.
C12_StreamFailureKeepsPartial ==
    [][\A s \in DOMAIN streams :
        /\ (streams[s].phase = "streaming" /\ streams'[s].phase = "errored")
           => /\ chats' = chats
              /\ activeChat' = activeChat
              /\ storage' = storage
              /\ Len(streams') = Len(streams)
              /\ streams'[s].rickResponse = Concat(streams[s].sent)
              /\ \A r \in DOMAIN streams :
                    streams'[r].phase = "fetch" => streams[r].phase = "fetch"
        /\ streams[s].phase = "errored"
           => streams'[s].phase \in {"errored", "gone"}]_vars

\* C12 witness: a stream failed after two deltas and its conversation ends
\* with the assistant message that holds both
C12_Witness ==
    \E s \in DOMAIN streams :
        /\ streams[s].phase = "errored"
        /\ Len(streams[s].sent) = 2
        /\ \E i \in DOMAIN chats :
              /\ chats[i].id = streams[s].chatId
              /\ chats[i].messages # <<>>
              /\ Last(chats[i].messages).role = "assistant"
              /\ Last(chats[i].messages).content = Concat(streams[s].sent)

\* C13: the gateway answers every failure, whether of reading the body, of
\* starting the completion or of the provider's stream while it is produced,
\* with status 500 and the JSON error body; a request answered with the
\* success status has had no failure.
C13_GatewayFailureGives500 ==
    /\ gateway.failure # "none"
       => gateway.status = 500 /\ gateway.body = "json-error"
    /\ (gateway.status = 200 /\ gateway.pc \in {"closed", "errored"})
       => gateway.failure = "none"

\* C14: a delta for a conversation other than the active one leaves the
\* active conversation as it is.  (Stated for lists whose ids are distinct.)
C14_UpdateOfOtherKeepsActive ==
    [][\A s \in 1..MaxSends, delta \in Deltas, now \in Now :
        (/\ StreamContent(s, delta, now)
         /\ DistinctIds(chats)
         /\ activeChat # <<>>
         /\ activeChat[1].id # streams[s].chatId)
        => activeChat' = activeChat]_vars

\* C15: whenever the page is ready the storage entry is the serialization of
\* the current list of conversations, after the startup and after each step
\* that changes the list; and a startup that finds a non-empty stored list
\* leaves that list in the entry.
C15_StorageFollowsChats ==
    [][/\ phase' = "ready"
          => /\ storage'.present
             /\ storage'.parses
             /\ storage'.chats = Serialize(chats')
       /\ ((Startup \/ Reload) /\ storage.present /\ storage.chats # <<>>)
          => storage'.chats = storage.chats]_vars

\* C15 witness: a page loaded from a stored list of two conversations, one
\* of them with a reply, whose entry is the serialization of its list
C15_Witness ==
    /\ phase = "ready"
    /\ Len(chats) = 2
    /\ \E i \in DOMAIN chats : Len(chats[i].messages) = 2
    /\ storage.present
    /\ storage.chats = Serialize(chats)
    /\ \A i \in DOMAIN chats :
          \A k \in DOMAIN chats[i].messages : chats[i].messages[k].timestamp.kind = "ISO"
    /\ \E s \in DOMAIN streams : streams[s].phase = "gone"

\* C16: the step that delivers the k-th delta of a stream (k >= 1) leaves its
\* conversation with the messages captured at the send (the earlier ones and
\* the new user message) followed by one assistant message whose content is
\* d1 \o ... \o dk; a stream that closes without a delta adds nothing.
C16_OneAssistantMessagePerStream ==
    [][\A s \in DOMAIN streams :
        /\ Len(streams'[s].sent) = Len(streams[s].sent) + 1
           => /\ \E i \in DOMAIN chats' : chats'[i].id = streams[s].chatId
              /\ \A i \in DOMAIN chats' :
                    chats'[i].id = streams[s].chatId
                    => LET messages == chats'[i].messages
                           n == Len(streams[s].updatedMessages)
                       IN /\ Len(messages) = n + 1
                          /\ SubSeq(messages, 1, n) = streams[s].updatedMessages
                          /\ messages[n + 1].role = "assistant"
                          /\ messages[n + 1].content = Concat(streams'[s].sent)
        /\ (/\ streams[s].phase = "streaming"
            /\ streams'[s].phase = "closed"
            /\ streams[s].sent = <<>>)
           => chats' = chats]_vars

\* C16 witness: the second send into a conversation has received two deltas;
\* the conversation holds the three messages captured at that send and one
\* assistant message with both deltas
C16_Witness ==
    \E s \in DOMAIN streams :
        /\ streams[s].phase = "streaming"
        /\ Len(streams[s].sent) = 2
        /\ Len(streams[s].updatedMessages) = 3
        /\ \E i \in DOMAIN chats :
              /\ chats[i].id = streams[s].chatId
              /\ Len(chats[i].messages) = 4
              /\ chats[i].messages[4].role = "assistant"
              /\ chats[i].messages[4].content = Concat(streams[s].sent)

\* C17: a startup that finds an entry that does not parse ends in the ready
\* page with no conversation and no active conversation.
C17_CorruptStorageStartsEmpty ==
    [][(phase = "boot" /\ ~storage.parses)
       => /\ phase' = "ready"
          /\ chats' = <<>>
          /\ activeChat' = <<>>]_vars

\* C18: in every reachable state the conversations of the list have pairwise
\* distinct ids.
C18_IdsPairwiseDistinct == DistinctIds(chats)

\* C19: a send is bound to the conversation that is active when it is
\* submitted, and each delta of its stream is written into the conversations
\* of that id only: every other conversation of the list after the delta is
\* as it was in the render of the send.  (A conversation is what its id names.)
C19_DeltaGoesToItsConversation ==
    [][/\ Len(streams') = Len(streams) + 1
          => /\ activeChat # <<>>
             /\ streams'[Len(streams')].chatId = activeChat[1].id
       /\ \A s \in DOMAIN streams :
            Len(streams'[s].sent) = Len(streams[s].sent) + 1
            => /\ streams'[s].chatId = streams[s].chatId
               /\ \E i \in DOMAIN chats' :
                     /\ chats'[i].id = streams[s].chatId
                     /\ Last(chats'[i].messages).content = Concat(streams'[s].sent)
               /\ \A i \in DOMAIN chats' :
                     chats'[i].id # streams[s].chatId
                     => /\ i \in DOMAIN streams[s].snap
                        /\ chats'[i] = streams[s].snap[i]]_vars

\* C19 witness: of two conversations with different ids the second is
\* active and empty while the stream of a send into the first has delivered
\* a delta, which the first holds
C19_Witness ==
    /\ Len(chats) = 2
    /\ chats[1].id # chats[2].id
    /\ activeChat = <<chats[2]>>
    /\ chats[2].messages = <<>>
    /\ \E s \in DOMAIN streams :
          /\ streams[s].phase = "streaming"
          /\ streams[s].chatId = chats[1].id
          /\ Len(streams[s].sent) >= 1
          /\ Last(chats[1].messages).role = "assistant"
          /\ Last(chats[1].messages).content = Concat(streams[s].sent)

\* The inputs that are empty or made of spaces only
OnlySpaces(userInput) == \A i \in DOMAIN userInput : userInput[i][1] = " "

\* C20: a sendMessage whose input is empty or made of spaces changes nothing:
\* not the list, not a message list, not the active conversation, not the
\* loading flag, not the stored list, and it issues no request.
C20_BlankSendIsNoOp ==
    [][\A userInput \in Inputs, now \in Now :
        (SendMessage(userInput, now) /\ OnlySpaces(userInput))
        => UNCHANGED <<chats, activeChat, loading, storage, streams, clock>>]_vars

\* C20 witness: a ready page, not loading, with an active conversation that
\* holds a reply in progress: a send with text would act here
C20_Witness ==
    /\ phase = "ready"
    /\ ~loading
    /\ activeChat # <<>>
    /\ Len(streams) < MaxSends
    /\ \E s \in DOMAIN streams :
          /\ streams[s].phase = "streaming"
          /\ streams[s].chatId = activeChat[1].id
          /\ Len(streams[s].sent) = 1
          /\ Last(activeChat[1].messages).content = Concat(streams[s].sent)

====
